---- MODULE Spec2Model ----
(***************************************************************************)
(* Conversational meeting scheduler: the session state machine of          *)
(* ConversationalService.processMessage and the availability /             *)
(* alternative-slot algorithm of SchedulingService.checkAvailability.      *)
(*                                                                         *)
(* Timestamps are whole minutes since 00:00 UTC of day 0.  An optional     *)
(* value (undefined, null, an Invalid Date) is the empty tuple, a present   *)
(* value v is the one-element tuple <<v>>.                                  *)
(***************************************************************************)
EXTENDS Integers, Sequences, FiniteSets, TLC

VARIABLES sessions, last, av, call

vars == <<sessions, last, av, call>>

None == <<>>

Some(v) == <<v>>

IsSome(o) == Len(o) = 1

Val(o) == o[1]

(***************************************************************************)
(* Bounds of the model.                                                    *)
(***************************************************************************)
MaxTurns == 3

MaxCands == 6

MaxSlotIdLen == 2

MaxMergeDepth == 2

MaxOrgTurns == 2

MaxRetries == 2

MaxRankSlots == 2

(***************************************************************************)
(* Program constants.                                                      *)
(***************************************************************************)
MinutesPerDay == 24 * 60

istOffset == 330

BusinessOpenHour == 9

BusinessCloseHour == 18

VeryCloseHours == 3

MaxAlternatives == 5

(***************************************************************************)
(* SchedulingService.checkAvailability                                     *)
(***************************************************************************)

\* overlap test that also counts a touching boundary
Overlaps_Closed(reqStart, reqEnd, itemStart, itemEnd) ==
    reqStart <= itemEnd /\ itemStart <= reqEnd

\* const overlaps = requestedStart < itemEnd && itemStart < requestedEnd
Overlaps(reqStart, reqEnd, itemStart, itemEnd) ==
    reqStart < itemEnd /\ itemStart < reqEnd

\* item test without the status test
ItemConflicts_AnyStatus(item, slotStart, slotEnd) ==
    Overlaps(slotStart, slotEnd, item.start, item.end)

\* one schedule item against a window: the status test, then the overlap test
ItemConflicts(item, slotStart, slotEnd) ==
    IF item.status # "busy" /\ item.status # "tentative"
    THEN FALSE
    ELSE Overlaps(slotStart, slotEnd, item.start, item.end)

\* scheduleResponse.value.some(schedule => schedule.scheduleItems.some(...))
hasConflict(value, slotStart, slotEnd) ==
    \E i \in 1..Len(value) :
        \E j \in 1..Len(value[i].scheduleItems) :
            ItemConflicts(value[i].scheduleItems[j], slotStart, slotEnd)

\* istTime = slotStart + istOffset; istHour = istTime.getUTCHours()
istHour(t) == ((t + istOffset) % MinutesPerDay) \div 60

inBusinessHours(t) == istHour(t) >= BusinessOpenHour /\ istHour(t) < BusinessCloseHour

\* the .filter() callback over findRes.meetingTimeSuggestions
KeepCandidate(slot, value, nowT) ==
    IF slot.start < nowT THEN FALSE
    ELSE IF hasConflict(value, slot.start, slot.end) THEN FALSE
    ELSE inBusinessHours(slot.start)

Abs(x) == IF x < 0 THEN -x ELSE x

timeDiff(slot, startTime) == Abs(slot.start - startTime)

sameDay(t1, t2) == t1 \div MinutesPerDay = t2 \div MinutesPerDay

isVeryClose(slot, startTime) == timeDiff(slot, startTime) <= VeryCloseHours * 60

\* the .sort() comparator: negative when a goes first, positive when b does
CompareSlots(a, b, startTime) ==
    IF isVeryClose(a, startTime) /\ ~isVeryClose(b, startTime) THEN -1
    ELSE IF ~isVeryClose(a, startTime) /\ isVeryClose(b, startTime) THEN 1
    ELSE IF sameDay(a.start, startTime) /\ ~sameDay(b.start, startTime) THEN -1
    ELSE IF ~sameDay(a.start, startTime) /\ sameDay(b.start, startTime) THEN 1
    ELSE timeDiff(a, startTime) - timeDiff(b, startTime)

\* insert x after every element that does not compare greater (stable)
RECURSIVE InsertSorted(_, _, _)
InsertSorted(x, s, startTime) ==
    IF s = <<>> THEN <<x>>
    ELSE IF CompareSlots(Head(s), x, startTime) <= 0
         THEN <<Head(s)>> \o InsertSorted(x, Tail(s), startTime)
         ELSE <<x>> \o s

\* the candidates left in the provider's order
SortSlots_ProviderOrder(s, startTime) == s

\* Array.prototype.sort with the comparator (stable)
RECURSIVE SortSlots(_, _)
SortSlots(s, startTime) ==
    IF s = <<>> THEN <<>>
    ELSE InsertSorted(s[Len(s)], SortSlots(SubSeq(s, 1, Len(s) - 1), startTime), startTime)

\* no slice
Slice5_All(s) == s

\* .slice(0, 5)
Slice5(s) == SubSeq(s, 1, IF Len(s) < MaxAlternatives THEN Len(s) ELSE MaxAlternatives)

\* .map((item, index) => ({rank: index + 1, start, end, ...}))
WithRanks(s) == [i \in 1..Len(s) |-> [rank |-> i, start |-> s[i].start, end |-> s[i].end]]

\* filter, sort, slice and rank of the provider's suggestions
businessHoursSlots(cands, value, startTime, nowT) ==
    LET Keep(slot) == KeepCandidate(slot, value, nowT)
    IN  WithRanks(Slice5(SortSlots(SelectSeq(cands, Keep), startTime)))

\* an entry of the log of calls a turn makes: the arguments and whether the
\* call returned (ok) or threw
ProviderCall(op, organizer, attendees, start, end, ok) ==
    [op |-> op, organizer |-> organizer, attendees |-> attendees,
     start |-> start, end |-> end, ok |-> ok]

\* The whole of checkAvailability.  startTime and endTime are Date objects
\* (None: an Invalid Date), internalAttendees is the attendee array (None:
\* undefined).  sched and find are the outcomes of graph.getSchedule and
\* graph.findMeetingTimes; nowT is the clock.
checkAvailability(organizer, startTime, endTime, internalAttendees, sched, find, nowT) ==
    LET free(calls) == [isSlotBusy |-> FALSE, alternativeSlots |-> <<>>,
                        calls |-> calls, raised |-> FALSE]
    IN
    IF ~IsSome(internalAttendees)
    THEN \* internalAttendees.length of undefined: TypeError outside the try
         [isSlotBusy |-> FALSE, alternativeSlots |-> <<>>, calls |-> <<>>, raised |-> TRUE]
    ELSE IF Len(Val(internalAttendees)) = 0 THEN free(<<>>)
    ELSE IF ~IsSome(startTime) \/ ~IsSome(endTime)
    THEN \* toISOString() of an Invalid Date throws inside the try
         free(<<>>)
    ELSE
    LET s == Val(startTime)
        e == Val(endTime)
        c1 == ProviderCall("getSchedule", Some(organizer), internalAttendees,
                           startTime, endTime, sched.ok)
        c2 == ProviderCall("findMeetingTimes", Some(organizer), internalAttendees,
                           startTime, endTime, find.ok)
    IN
    IF ~sched.ok THEN free(<<c1>>)
    ELSE IF ~hasConflict(sched.value, s, e) THEN free(<<c1>>)
    ELSE IF ~find.ok
    THEN [isSlotBusy |-> TRUE, alternativeSlots |-> <<>>,
          calls |-> <<c1, c2>>, raised |-> FALSE]
    ELSE [isSlotBusy |-> TRUE,
          alternativeSlots |-> businessHoursSlots(find.suggestions, sched.value, s, nowT),
          calls |-> <<c1, c2>>, raised |-> FALSE]

(***************************************************************************)
(* SchedulingService.scheduleMeeting                                       *)
(***************************************************************************)

\* attendees.map(a => typeof a === 'string' ? {emailAddress: {address: a}} : a)
normalizedAllAttendees(attendees) ==
    [i \in 1..Len(attendees) |-> [emailAddress |-> [address |-> attendees[i]]]]

\* dto: the booking payload; outcome: what the collaborators do
\*   "ok"               every step succeeds
\*   "createEventFails" graph.createEventForUser throws, no event exists
\*   "recordFails"      the event is created, storing the meeting record throws
scheduleMeeting(dto, outcome) ==
    LET entry(ok) == ProviderCall("scheduleMeeting", dto.organizer, dto.attendees,
                                  dto.start, dto.end, ok)
    IN
    IF ~IsSome(dto.attendees)
    THEN \* categorizeAttendees: attendees.forEach of undefined
         [raised |-> TRUE, calls |-> <<entry(FALSE)>>, created |-> FALSE]
    ELSE
    LET create(ok) == ProviderCall("createEvent", dto.organizer,
                                   Some(normalizedAllAttendees(Val(dto.attendees))),
                                   dto.start, dto.end, ok)
    IN
    IF outcome = "createEventFails"
    THEN [raised |-> TRUE, calls |-> <<entry(FALSE), create(FALSE)>>, created |-> FALSE]
    ELSE IF outcome = "recordFails"
    THEN [raised |-> TRUE, calls |-> <<entry(FALSE), create(TRUE)>>, created |-> TRUE]
    ELSE [raised |-> FALSE, calls |-> <<entry(TRUE), create(TRUE)>>, created |-> TRUE]

(***************************************************************************)
(* ConversationalService: sessions and turns                               *)
(***************************************************************************)

SessionIds == {"s1"}

Intents == {"schedule_new", "modify_existing", "ask_question", "clarify",
            "cancel", "confirm", "select_slot"}

Organizer == "me@corp.com"

Alice == "alice@corp.com"

Bob == "bob@partner.org"

\* the clock during a conversation, and the times a user may ask for
Now == 8 * 60 + 20

T1 == 10 * 60

T2 == MinutesPerDay + 10 * 60

E1 == 11 * 60

\* a line of conversationHistory, by its prefix ("User: ..." / "Assistant: ...")
UserLine == "User"

AssistantLine == "Assistant"

\* getSession: the session of the map, or a new one with an empty history
NewSession ==
    [conversationHistory |-> <<>>, lastIntent |-> None,
     partialMeetingData |-> None, proposedSlots |-> None, pendingBooking |-> None]

getSession(map, sessionId) ==
    IF IsSome(map[sessionId]) THEN Val(map[sessionId]) ELSE NewSession

MeetingFields == {"subject", "attendees", "startTime", "endTime", "duration"}

\* a || b of JavaScript on optional values (arrays and objects are truthy)
OrElse(a, b) == IF IsSome(a) THEN a ELSE b

mergeMeetingData(existing, newData) ==
    [subject    |-> OrElse(newData.subject, existing.subject),
     attendees  |-> OrElse(newData.attendees, existing.attendees),
     startTime  |-> OrElse(newData.startTime, existing.startTime),
     endTime    |-> OrElse(newData.endTime, existing.endTime),
     duration   |-> OrElse(newData.duration, existing.duration),
     isComplete |-> newData.isComplete]

\* what MeetingParser.extractMeetingData can return: the model's JSON after
\* schema validation, or the fallback (no field, isComplete false)
Extractions ==
    [subject    : {None, Some("Sync")},
     attendees  : {None, Some(<<Alice, Bob>>)},
     startTime  : {None, Some(T1)},
     endTime    : {None, Some(E1)},
     duration   : {None, Some(30)},
     isComplete : BOOLEAN]

\* requested windows no meeting can have: one that starts before the clock,
\* one that ends where it starts, one that ends after every closing time
InvalidWindows == {<<8 * 60, 9 * 60>>, <<T1, T1>>, <<15 * 60, 16 * 60>>}

\* complete extractions that ask for such a window
InvalidWindowExtractions ==
    {[subject |-> None, attendees |-> Some(<<Alice, Bob>>),
      startTime |-> Some(w[1]), endTime |-> Some(w[2]), duration |-> None,
      isComplete |-> TRUE] : w \in InvalidWindows}

\* the extraction argument of a turn that extracts nothing
NoExtraction ==
    [subject |-> None, attendees |-> None, startTime |-> None, endTime |-> None,
     duration |-> None, isComplete |-> FALSE]

\* the result of one step of a turn
Outcome(ctx, response, calls) ==
    [ctx |-> ctx, response |-> Some(response), raised |-> FALSE, calls |-> calls,
     checked |-> FALSE]

Raise(ctx, calls) ==
    [ctx |-> ctx, response |-> None, raised |-> TRUE, calls |-> calls,
     checked |-> FALSE]

checkAndPropose(ctx, meetingData, organizer, sched, find) ==
    LET availability == checkAvailability(organizer, meetingData.startTime,
                            meetingData.endTime, meetingData.attendees,
                            sched, find, Now)
    IN
    IF availability.raised THEN Raise(ctx, availability.calls)
    ELSE IF ~availability.isSlotBusy
    THEN Outcome([ctx EXCEPT !.pendingBooking =
                      Some([subject   |-> meetingData.subject,
                            attendees |-> meetingData.attendees,
                            start     |-> meetingData.startTime,
                            end       |-> meetingData.endTime,
                            organizer |-> Some(organizer)])],
                 "available", availability.calls)
    ELSE Outcome([ctx EXCEPT !.proposedSlots = Some(availability.alternativeSlots)],
                 IF Len(availability.alternativeSlots) = 0
                 THEN "busy_no_alternatives" ELSE "alternatives",
                 availability.calls)

\* cases 'schedule_new' and 'clarify' of processMessage (the same code)
ScheduleCase(ctx, userEmail, extracted, sched, find, llmOk) ==
    LET meetingData == IF IsSome(ctx.partialMeetingData)
                       THEN mergeMeetingData(Val(ctx.partialMeetingData), extracted)
                       ELSE extracted
        ctx1 == [ctx EXCEPT !.partialMeetingData = Some(meetingData)]
    IN
    IF meetingData.isComplete
    THEN IF IsSome(userEmail)
         THEN [checkAndPropose(ctx1, meetingData, Val(userEmail), sched, find)
                   EXCEPT !.checked = TRUE]
         ELSE Outcome(ctx1, "need_identity", <<>>)
    ELSE \* generateClarifyingQuestions: one completion call, not guarded
         IF llmOk THEN Outcome(ctx1, "clarifying_question", <<>>)
         ELSE Raise(ctx1, <<>>)

executeBooking(bookingData, organizer, bookOutcome) ==
    LET dto == [bookingData EXCEPT !.organizer = OrElse(organizer, bookingData.organizer)]
        res == scheduleMeeting(dto, bookOutcome)
    IN  [response |-> IF res.raised THEN "booking_error" ELSE "booked",
         calls |-> res.calls, created |-> res.created]

\* confirm that books but forgets to clear the pending booking
ConfirmCase_KeepsPending(ctx, userEmail, bookOutcome) ==
    IF IsSome(ctx.pendingBooking)
    THEN LET res == executeBooking(Val(ctx.pendingBooking), userEmail, bookOutcome)
         IN  Outcome([ctx EXCEPT !.partialMeetingData = None,
                                 !.proposedSlots = None],
                     res.response, res.calls)
    ELSE Outcome(ctx, "confirm_what", <<>>)

\* case 'confirm'
ConfirmCase(ctx, userEmail, bookOutcome) ==
    IF IsSome(ctx.pendingBooking)
    THEN LET res == executeBooking(Val(ctx.pendingBooking), userEmail, bookOutcome)
         IN  Outcome([ctx EXCEPT !.pendingBooking = None,
                                 !.partialMeetingData = None,
                                 !.proposedSlots = None],
                     res.response, res.calls)
    ELSE Outcome(ctx, "confirm_what", <<>>)

\* slotId.replace(/\D/g, ''): the digits of the string, in order
Digits == {"0", "1", "2", "3", "4", "5", "6", "7", "8", "9"}

DigitValue(c) ==
    CASE c = "0" -> 0 [] c = "1" -> 1 [] c = "2" -> 2 [] c = "3" -> 3
      [] c = "4" -> 4 [] c = "5" -> 5 [] c = "6" -> 6 [] c = "7" -> 7
      [] c = "8" -> 8 [] c = "9" -> 9

IsDigit(c) == c \in Digits

DigitsOf(str) == SelectSeq(str, IsDigit)

\* parseInt of a string of digits; None is NaN (the empty string)
RECURSIVE DecimalValue(_)
DecimalValue(ds) ==
    IF ds = <<>> THEN 0
    ELSE 10 * DecimalValue(SubSeq(ds, 1, Len(ds) - 1)) + DigitValue(ds[Len(ds)])

parseInt(ds) == IF ds = <<>> THEN None ELSE Some(DecimalValue(ds))

\* selection that falls back to the first slot when no ordinal is usable
selectedSlot_FirstSlot(proposedSlots, slotId) ==
    IF ~IsSome(slotId) \/ Val(slotId) = <<>> THEN Some(proposedSlots[1])
    ELSE LET rank == parseInt(DigitsOf(Val(slotId)))
         IN  IF IsSome(rank) /\ Val(rank) > 0 /\ Val(rank) <= Len(proposedSlots)
             THEN Some(proposedSlots[Val(rank)])
             ELSE Some(proposedSlots[1])

\* the slot chosen by extractedData.slotId, None when nothing is chosen
selectedSlot(proposedSlots, slotId) ==
    IF ~IsSome(slotId) \/ Val(slotId) = <<>> THEN None
    ELSE LET rank == parseInt(DigitsOf(Val(slotId)))
         IN  IF IsSome(rank) /\ Val(rank) > 0 /\ Val(rank) <= Len(proposedSlots)
             THEN Some(proposedSlots[Val(rank)])
             ELSE None

\* select_slot that really starts over when there is nothing to select from
SelectSlotCase_StartsOver(ctx, userEmail, slotId) ==
    IF IsSome(ctx.proposedSlots) /\ Len(Val(ctx.proposedSlots)) > 0
    THEN LET sel == selectedSlot(Val(ctx.proposedSlots), slotId)
         IN  IF ~IsSome(sel) THEN Outcome(ctx, "which_slot", <<>>)
             ELSE IF ~IsSome(ctx.partialMeetingData)
             THEN \* meetingDetails.subject of undefined
                  Raise(ctx, <<>>)
             ELSE LET meetingDetails == Val(ctx.partialMeetingData)
                  IN  Outcome([ctx EXCEPT !.pendingBooking =
                                   Some([subject   |-> meetingDetails.subject,
                                         attendees |-> meetingDetails.attendees,
                                         start     |-> Some(Val(sel).start),
                                         end       |-> Some(Val(sel).end),
                                         organizer |-> userEmail])],
                              "selected", <<>>)
    ELSE Outcome([ctx EXCEPT !.partialMeetingData = None, !.proposedSlots = None],
                 "no_slots", <<>>)

\* case 'select_slot'
SelectSlotCase(ctx, userEmail, slotId) ==
    IF IsSome(ctx.proposedSlots) /\ Len(Val(ctx.proposedSlots)) > 0
    THEN LET sel == selectedSlot(Val(ctx.proposedSlots), slotId)
         IN  IF ~IsSome(sel) THEN Outcome(ctx, "which_slot", <<>>)
             ELSE IF ~IsSome(ctx.partialMeetingData)
             THEN \* meetingDetails.subject of undefined
                  Raise(ctx, <<>>)
             ELSE LET meetingDetails == Val(ctx.partialMeetingData)
                  IN  Outcome([ctx EXCEPT !.pendingBooking =
                                   Some([subject   |-> meetingDetails.subject,
                                         attendees |-> meetingDetails.attendees,
                                         start     |-> Some(Val(sel).start),
                                         end       |-> Some(Val(sel).end),
                                         organizer |-> userEmail])],
                              "selected", <<>>)
    ELSE Outcome(ctx, "no_slots", <<>>)

\* case 'ask_question': generateQuestionResponse, one completion call, not guarded
AskQuestionCase(ctx, llmOk) ==
    IF llmOk THEN Outcome(ctx, "answer", <<>>) ELSE Raise(ctx, <<>>)

\* the switch of processMessage
Dispatch(ctx, intent, slotId, userEmail, extracted, sched, find, bookOutcome, llmOk) ==
    CASE intent \in {"schedule_new", "clarify"} ->
             ScheduleCase(ctx, userEmail, extracted, sched, find, llmOk)
      [] intent = "confirm" -> ConfirmCase(ctx, userEmail, bookOutcome)
      [] intent = "select_slot" -> SelectSlotCase(ctx, userEmail, slotId)
      [] intent = "modify_existing" -> Outcome(ctx, "modify", <<>>)
      [] intent = "ask_question" -> AskQuestionCase(ctx, llmOk)
      [] intent = "cancel" -> Outcome(ctx, "cancelled", <<>>)

\* clearSession that resets the booking fields but keeps the session
clearSession_KeepsEntry(map, sessionId) ==
    [map EXCEPT ![sessionId] =
         Some([Val(@) EXCEPT !.partialMeetingData = None, !.proposedSlots = None,
                             !.pendingBooking = None])]

\* clearSession: this.sessions.delete(sessionId)
clearSession(map, sessionId) == [map EXCEPT ![sessionId] = None]

\* processMessage: the session map after the turn and what the turn did
processMessage(map, sessionId, intent, slotId, userEmail, extracted, sched, find, bookOutcome, llmOk) ==
    LET session == getSession(map, sessionId)
        ctx0 == [session EXCEPT !.conversationHistory = Append(@, UserLine),
                                !.lastIntent = Some(intent)]
        res == Dispatch(ctx0, intent, slotId, userEmail, extracted,
                        sched, find, bookOutcome, llmOk)
        ctx1 == IF res.raised THEN res.ctx
                ELSE [res.ctx EXCEPT !.conversationHistory =
                          Append(@, AssistantLine)]
        map1 == [map EXCEPT ![sessionId] = Some(ctx1)]
    IN  [sessions |-> IF intent = "cancel" THEN clearSession(map1, sessionId) ELSE map1,
         response |-> res.response, raised |-> res.raised, calls |-> res.calls,
         checked |-> res.checked]

(***************************************************************************)
(* The conversation: one action per classified intent                      *)
(***************************************************************************)

Slot(start, end) == [start |-> start, end |-> end]

Item(start, end, status) == [start |-> start, end |-> end, status |-> status]

Schedule(who, items) == [scheduleId |-> who, scheduleItems |-> items]

Failed == [ok |-> FALSE, value |-> <<>>, suggestions |-> <<>>]

ScheduleResponse(value) == [ok |-> TRUE, value |-> value, suggestions |-> <<>>]

FindResponse(suggestions) == [ok |-> TRUE, value |-> <<>>, suggestions |-> suggestions]

\* what graph.getSchedule may answer during a conversation
ConvSchedules ==
    {Failed,
     ScheduleResponse(<<Schedule(Alice, <<>>)>>),
     ScheduleResponse(<<Schedule(Alice, <<Item(T1, T1 + 60, "busy"),
                                          Item(T2, T2 + 60, "tentative")>>)>>)}

\* what graph.findMeetingTimes may answer during a conversation
ConvFinds ==
    {Failed,
     FindResponse(<<>>),
     FindResponse(<<Slot(690, 750), Slot(1650, 1710), Slot(660, 720)>>)}

UserEmails == {None, Some(Organizer)}

BookOutcomes == {"ok", "createEventFails", "recordFails"}

\* extractedData.slotId: absent, or a short string over a small alphabet
SlotIdChars == {"s", "0", "1", "2", "5"}

RECURSIVE StringsUpTo(_)
StringsUpTo(n) ==
    IF n = 0 THEN {<<>>}
    ELSE LET shorter == StringsUpTo(n - 1)
         IN  shorter \cup {Append(str, c) : str \in shorter, c \in SlotIdChars}

SlotIds == {None} \cup {Some(str) : str \in StringsUpTo(MaxSlotIdLen)}

NoTurn ==
    [n |-> 0, sessionId |-> "", intent |-> "", response |-> None,
     raised |-> FALSE, calls |-> <<>>, checked |-> FALSE]

AvIdle == [pc |-> "idle"]

\* no parser or validation call is being looked at on its own
CallIdle == [pc |-> "idle"]

Init ==
    /\ sessions = [id \in SessionIds |-> None]
    /\ last = NoTurn
    /\ av = AvIdle
    /\ call = CallIdle

\* one processMessage call, run to completion
Turn(sessionId, intent, slotId, userEmail, extracted, sched, find, bookOutcome, llmOk) ==
    /\ av.pc = "idle"
    /\ last.n < MaxTurns
    /\ \E res \in {processMessage(sessions, sessionId, intent, slotId, userEmail,
                                 extracted, sched, find, bookOutcome, llmOk)} :
           /\ sessions' = res.sessions
           /\ last' = [n |-> last.n + 1, sessionId |-> sessionId, intent |-> intent,
                       response |-> res.response, raised |-> res.raised,
                       calls |-> res.calls, checked |-> res.checked]
    /\ UNCHANGED <<av, call>>

\* The outcomes of the external calls of a schedule_new / clarify turn.  An
\* incomplete request makes one completion call (the clarifying question); a
\* complete one without a user makes no call; a complete one with a user
\* makes the calendar calls.
NoExternal == [llmOk |-> TRUE, sched |-> Failed, find |-> Failed]

CompletionOutcomes == {[NoExternal EXCEPT !.llmOk = ok] : ok \in BOOLEAN}

CalendarOutcomes ==
    {[NoExternal EXCEPT !.sched = sched] : sched \in ConvSchedules}
    \cup {[NoExternal EXCEPT !.sched = sched, !.find = find] :
              sched \in {r \in ConvSchedules : r.ok /\ r.value[1].scheduleItems # <<>>},
              find \in ConvFinds \ {Failed}}

ExternalOutcomes(isComplete, userEmail) ==
    IF ~isComplete THEN CompletionOutcomes
    ELSE IF ~IsSome(userEmail) THEN {NoExternal}
    ELSE CalendarOutcomes

ScheduleInputs ==
    {[x |-> x, userEmail |-> userEmail, ext |-> ext] :
         x \in Extractions, userEmail \in UserEmails,
         ext \in CompletionOutcomes \cup CalendarOutcomes}

ReadInputs ==
    {i \in ScheduleInputs : i.ext \in ExternalOutcomes(i.x.isComplete, i.userEmail)}

ScheduleTurn(intent) ==
    \E sessionId \in SessionIds, i \in ReadInputs :
        Turn(sessionId, intent, None, i.userEmail, i.x, i.ext.sched, i.ext.find,
             "ok", i.ext.llmOk)

ScheduleNew == ScheduleTurn("schedule_new")

Clarify == ScheduleTurn("clarify")

Confirm ==
    \E sessionId \in SessionIds, userEmail \in UserEmails, bookOutcome \in BookOutcomes :
        Turn(sessionId, "confirm", None, userEmail, NoExtraction, Failed, Failed, bookOutcome, TRUE)

SelectSlot ==
    \E sessionId \in SessionIds, userEmail \in UserEmails, slotId \in SlotIds :
        Turn(sessionId, "select_slot", slotId, userEmail, NoExtraction, Failed, Failed, "ok", TRUE)

ModifyExisting ==
    \E sessionId \in SessionIds, userEmail \in UserEmails :
        Turn(sessionId, "modify_existing", None, userEmail, NoExtraction, Failed, Failed, "ok", TRUE)

AskQuestion ==
    \E sessionId \in SessionIds, userEmail \in UserEmails, llmOk \in BOOLEAN :
        Turn(sessionId, "ask_question", None, userEmail, NoExtraction, Failed, Failed, "ok", llmOk)

Cancel ==
    \E sessionId \in SessionIds, userEmail \in UserEmails :
        Turn(sessionId, "cancel", None, userEmail, NoExtraction, Failed, Failed, "ok", TRUE)

Next ==
    \/ ScheduleNew
    \/ Clarify
    \/ Confirm
    \/ SelectSlot
    \/ ModifyExisting
    \/ AskQuestion
    \/ Cancel

Spec == Init /\ [][Next]_vars

(***************************************************************************)
(* checkAvailability on its own: inputs drawn at the start, one call       *)
(***************************************************************************)

\* the subsequence of pool whose elements are in keep
Pick(pool, keep) ==
    LET In(x) == x \in keep IN SelectSeq(pool, In)

Range(seq) == {seq[i] : i \in 1..Len(seq)}

AvItemPool ==
    <<Item(630, 645, "busy"), Item(660, 720, "busy"), Item(540, 600, "tentative"),
      Item(590, 610, "tentative"), Item(600, 660, "free"), Item(2030, 2045, "busy")>>

AvSchedules ==
    {Failed}
    \cup {ScheduleResponse(<<Schedule(Alice, Pick(AvItemPool, keep))>>) :
              keep \in SUBSET Range(AvItemPool)}
    \cup {ScheduleResponse(<<Schedule(Alice, <<>>), Schedule(Bob, Pick(AvItemPool, keep))>>) :
              keep \in SUBSET {Item(630, 645, "busy"), Item(600, 660, "free")}}

AvSuggestionPool ==
    <<Slot(2040, 2100), Slot(720, 780), Slot(690, 750), Slot(510, 570),
      Slot(1650, 1710), Slot(630, 690), Slot(750, 810)>>

AvFinds ==
    {Failed}
    \cup {FindResponse(Pick(AvSuggestionPool, keep)) :
              keep \in {k \in SUBSET Range(AvSuggestionPool) : Cardinality(k) <= MaxCands}}

AvWindows ==
    {<<Some(600), Some(660)>>, <<Some(600), None>>, <<Some(2040), Some(2070)>>}

AvClocks == {500, 620}

AvAttendees == {Some(<<>>), Some(<<Alice, Bob>>)}

\* busy intervals of a checked attendee that lie outside every requested
\* window, which a query over the requested window does not return
AvOutside == {<<>>, <<Item(690, 720, "busy")>>}

AvInit ==
    /\ sessions = [id \in SessionIds |-> None]
    /\ last = NoTurn
    /\ \E w \in AvWindows, attendees \in AvAttendees, nowT \in AvClocks,
          sched \in AvSchedules, find \in AvFinds, outside \in AvOutside :
           av = [pc |-> "call", startTime |-> w[1], endTime |-> w[2],
                 attendees |-> attendees, now |-> nowT, sched |-> sched, find |-> find,
                 outside |-> outside]
    /\ call = CallIdle

AvCheck ==
    /\ av.pc = "call"
    /\ av' = [av EXCEPT !.pc = "done"] @@
             [out |-> checkAvailability(Organizer, av.startTime, av.endTime,
                                        av.attendees, av.sched, av.find, av.now)]
    /\ UNCHANGED <<sessions, last, call>>

AvNext == AvCheck

SpecAvail == AvInit /\ [][AvNext]_vars

(***************************************************************************)
(* The parsers on their own: IntentParser.classifyIntent and               *)
(* MeetingParser.extractMeetingData, one call on one completion            *)
(***************************************************************************)

\* The source holds each parser twice: the variant that reads the JSON by
\* hand inside try / catch ("guarded") and the variant that hands the
\* completion to StructuredOutputParser with no catch ("structured").
ParserVariants == {"guarded", "structured"}

\* What model.invoke can do: reject ("failed"), answer text without a JSON
\* object ("text"), answer braces that JSON.parse rejects ("badjson"), or
\* answer a JSON object ("object", obj the parsed object).
Completion(kind, obj) == [kind |-> kind, obj |-> obj]

NoObject == {Completion(kind, None) : kind \in {"failed", "text", "badjson"}}

\* confidence in tenths: -0.1, 0, 0.5, 1, 1.2
ConfidenceTenths == {-1, 0, 5, 10, 12}

IntentObjects ==
    [intent : Intents \cup {"chitchat"}, confidence : ConfidenceTenths]

IntentCompletions ==
    NoObject \cup {Completion("object", Some(obj)) : obj \in IntentObjects}

\* intentSchema.parse: z.enum of the seven intents, confidence min(0).max(1)
intentSchemaAccepts(obj) ==
    /\ obj.intent \in Intents
    /\ obj.confidence >= 0 /\ obj.confidence <= 10

Returned(value) == [raised |-> FALSE, value |-> Some(value)]

Thrown == [raised |-> TRUE, value |-> None]

\* the catch block of the guarded classifyIntent
IntentFallback == [intent |-> "ask_question", confidence |-> 5]

classifyIntent(variant, completion) ==
    IF completion.kind = "object" /\ intentSchemaAccepts(Val(completion.obj))
    THEN Returned(Val(completion.obj))
    ELSE IF variant = "guarded" THEN Returned(IntentFallback)
    ELSE Thrown

\* the model's missingFields list, as it reports it
MissingFieldLists == {<<>>, <<"attendees">>}

MeetingObjects ==
    [subject       : {None},
     attendees     : {None, Some(<<>>), Some(<<Alice>>)},
     startTime     : {None, Some(T1)},
     endTime       : {None, Some(E1)},
     duration      : {None, Some(30)},
     isComplete    : {None, Some(FALSE), Some(TRUE)},
     missingFields : MissingFieldLists]

MeetingCompletions ==
    NoObject \cup {Completion("object", Some(obj)) : obj \in MeetingObjects}

\* meetingDataSchema.parse: isComplete is a required boolean, the other
\* fields are optional
meetingDataSchemaAccepts(obj) == IsSome(obj.isComplete)

\* the catch block of the guarded extractMeetingData
MeetingFallback ==
    [subject |-> None, attendees |-> None, startTime |-> None, endTime |-> None,
     duration |-> None, isComplete |-> Some(FALSE),
     missingFields |-> <<"attendees", "time", "date">>]

extractMeetingData(variant, completion) ==
    IF completion.kind = "object" /\ meetingDataSchemaAccepts(Val(completion.obj))
    THEN Returned(Val(completion.obj))
    ELSE IF variant = "guarded" THEN Returned(MeetingFallback)
    ELSE Thrown

ParseInit ==
    /\ sessions = [id \in SessionIds |-> None]
    /\ last = NoTurn
    /\ av = AvIdle
    /\ \E variant \in ParserVariants :
          \/ \E completion \in IntentCompletions :
                call = [pc |-> "call", op |-> "classifyIntent",
                        variant |-> variant, completion |-> completion]
          \/ \E completion \in MeetingCompletions :
                call = [pc |-> "call", op |-> "extractMeetingData",
                        variant |-> variant, completion |-> completion]

ClassifyIntent ==
    /\ call.pc = "call" /\ call.op = "classifyIntent"
    /\ call' = [call EXCEPT !.pc = "done"] @@
               [out |-> classifyIntent(call.variant, call.completion)]
    /\ UNCHANGED <<sessions, last, av>>

ExtractMeetingData ==
    /\ call.pc = "call" /\ call.op = "extractMeetingData"
    /\ call' = [call EXCEPT !.pc = "done"] @@
               [out |-> extractMeetingData(call.variant, call.completion)]
    /\ UNCHANGED <<sessions, last, av>>

ParseNext == ClassifyIntent \/ ExtractMeetingData

SpecParse == ParseInit /\ [][ParseNext]_vars

(***************************************************************************)
(* SchedulingService.suggestSlots: the validation of the request           *)
(***************************************************************************)

\* start.split('T')[0]: the UTC calendar day of a timestamp
dateOf(t) == t \div MinutesPerDay

\* new Date(`${startDateOnly}T04:30:00Z`)
windowOpen(day) == day * MinutesPerDay + 4 * 60 + 30

\* new Date(`${endDateOnly}T15:30:00Z`)
maxEndTime(day) == day * MinutesPerDay + 15 * 60 + 30

Rejected(error) == [accepted |-> FALSE, error |-> Some(error)]

\* every check passed: the call goes on to the calendar lookup
Accepted == [accepted |-> TRUE, error |-> None]

suggestSlots(dto, nowT) ==
    IF ~IsSome(dto.start) \/ ~IsSome(dto.end) THEN Rejected("missing_times")
    ELSE IF Len(dto.attendees) = 0 THEN Rejected("missing_attendees")
    ELSE LET startDate == Val(dto.start)
             endDate == Val(dto.end)
             effectiveStartTime == IF dateOf(startDate) = dateOf(nowT) THEN nowT
                                   ELSE windowOpen(dateOf(startDate))
         IN  IF startDate < effectiveStartTime THEN Rejected("start_before_earliest")
             ELSE IF endDate > maxEndTime(dateOf(endDate)) THEN Rejected("end_after_cutoff")
             ELSE Accepted

\* times of day 0 (the clock's day) and of day 1 around the window's edges
SuggestTimes ==
    {3 * 60, 4 * 60 + 30, 8 * 60, 9 * 60, 10 * 60, 15 * 60 + 30, 16 * 60}
    \cup {MinutesPerDay + t : t \in {4 * 60, 4 * 60 + 30, 5 * 60, 15 * 60 + 30, 16 * 60}}

SuggestInputs ==
    [start : {None} \cup {Some(t) : t \in SuggestTimes},
     end : {None} \cup {Some(t) : t \in SuggestTimes},
     attendees : {<<>>, <<Alice>>}]

SuggestInit ==
    /\ sessions = [id \in SessionIds |-> None]
    /\ last = NoTurn
    /\ av = AvIdle
    /\ \E dto \in SuggestInputs :
          call = [pc |-> "call", op |-> "suggestSlots", dto |-> dto, now |-> Now]

SuggestSlots ==
    /\ call.pc = "call" /\ call.op = "suggestSlots"
    /\ call' = [call EXCEPT !.pc = "done"] @@ [out |-> suggestSlots(call.dto, call.now)]
    /\ UNCHANGED <<sessions, last, av>>

SuggestNext == SuggestSlots

SpecSuggest == SuggestInit /\ [][SuggestNext]_vars

(***************************************************************************)
(* LLMProvider: the choice of the chat-model provider from the environment *)
(***************************************************************************)

\* process.env.X: unset, the empty string, or a key
EnvValues == {None, Some(""), Some("key")}

\* !!value of an environment variable
truthy(value) == IsSome(value) /\ Val(value) # ""

Tasks == {"intent", "extraction", "agent", "general"}

createGroqModel(task) == [class |-> "ChatGroq", model |-> "llama-3.3-70b-versatile"]

createAzureOpenAIModel(task) == [class |-> "AzureChatOpenAI", model |-> "deployment"]

createOpenAIModel(task) ==
    [class |-> "ChatOpenAI", model |-> IF task = "agent" THEN "gpt-4o" ELSE "gpt-4o-mini"]

createChatModel(env, task) ==
    LET hasGroq == truthy(env.GROQ_API_KEY)
        hasAzure == truthy(env.AZURE_OPENAI_API_KEY)
        hasOpenAI == truthy(env.OPENAI_API_KEY)
    IN  IF ~hasGroq /\ ~hasAzure /\ ~hasOpenAI THEN Thrown
        ELSE IF hasGroq THEN Returned(createGroqModel(task))
        ELSE IF hasAzure THEN Returned(createAzureOpenAIModel(task))
        ELSE Returned(createOpenAIModel(task))

\* provider detection that asks for the OpenAI key before the Azure key
getProvider_OpenAIFirst(env) ==
    IF truthy(env.GROQ_API_KEY) THEN "groq"
    ELSE IF truthy(env.OPENAI_API_KEY) THEN "openai"
    ELSE IF truthy(env.AZURE_OPENAI_API_KEY) THEN "azure"
    ELSE "none"

getProvider(env) ==
    IF truthy(env.GROQ_API_KEY) THEN "groq"
    ELSE IF truthy(env.AZURE_OPENAI_API_KEY) THEN "azure"
    ELSE IF truthy(env.OPENAI_API_KEY) THEN "openai"
    ELSE "none"

supportsStructuredOutput(env) ==
    LET provider == getProvider(env)
    IN  provider = "openai" \/ provider = "azure"

Environments ==
    [GROQ_API_KEY : EnvValues, AZURE_OPENAI_API_KEY : EnvValues,
     OPENAI_API_KEY : EnvValues]

ProviderInit ==
    /\ sessions = [id \in SessionIds |-> None]
    /\ last = NoTurn
    /\ av = AvIdle
    /\ \E env \in Environments, task \in Tasks :
          call = [pc |-> "call", op |-> "LLMProvider", env |-> env, task |-> task]

ProviderCallDone(op, out) ==
    /\ call.pc = "call" /\ call.op = "LLMProvider"
    /\ call' = [call EXCEPT !.pc = "done", !.op = op] @@ [out |-> out]
    /\ UNCHANGED <<sessions, last, av>>

CreateChatModel == ProviderCallDone("createChatModel", createChatModel(call.env, call.task))

GetProvider == ProviderCallDone("getProvider", Returned(getProvider(call.env)))

SupportsStructuredOutput ==
    ProviderCallDone("supportsStructuredOutput", Returned(supportsStructuredOutput(call.env)))

ProviderNext == CreateChatModel \/ GetProvider \/ SupportsStructuredOutput

SpecProvider == ProviderInit /\ [][ProviderNext]_vars

(***************************************************************************)
(* Two confirm turns of one session in flight: processMessage split at its *)
(* await points (classifyIntent, executeBooking)                           *)
(***************************************************************************)

TurnIds == {"a", "b"}

\* a booking that waits for its confirmation
PendingOf(start, end) ==
    [subject |-> None, attendees |-> Some(<<Alice, Bob>>), start |-> Some(start),
     end |-> Some(end), organizer |-> Some(Organizer)]

\* sessions two confirm messages can arrive at
ConfirmSessions ==
    {[NewSession EXCEPT !.conversationHistory = <<UserLine, AssistantLine>>,
                        !.lastIntent = Some("schedule_new"),
                        !.partialMeetingData = partial,
                        !.proposedSlots = slots,
                        !.pendingBooking = pending] :
         partial \in {None, Some([NoExtraction EXCEPT !.attendees = Some(<<Alice, Bob>>)])},
         slots \in {None, Some(<<>>), Some(<<Slot(690, 750)>>)},
         pending \in {None, Some(PendingOf(T1, E1)), Some(PendingOf(T2, T2 + 60))}}

TurnIdle == [pc |-> "idle", userEmail |-> None, response |-> None]

ConfirmInit ==
    /\ \E session \in ConfirmSessions : sessions = [id \in SessionIds |-> Some(session)]
    /\ last = NoTurn
    /\ av = AvIdle
    /\ call = [pc |-> "turns", sessionId |-> "s1",
               turn |-> [t \in TurnIds |-> TurnIdle], calls |-> <<>>]

\* processMessage up to `await classifyIntent`: the User line is pushed
ConfirmStart(t) ==
    /\ call.pc = "turns" /\ call.turn[t].pc = "idle"
    /\ \E userEmail \in UserEmails :
          call' = [call EXCEPT !.turn[t] = [pc |-> "classify", userEmail |-> userEmail,
                                             response |-> None]]
    /\ sessions' = [sessions EXCEPT ![call.sessionId] =
                        Some([getSession(sessions, call.sessionId) EXCEPT
                                  !.conversationHistory = Append(@, UserLine)])]
    /\ UNCHANGED <<last, av>>

\* classifyIntent has answered 'confirm': case 'confirm' up to
\* `await executeBooking`, or to the end when nothing is pending
ConfirmClassified(t) ==
    /\ call.pc = "turns" /\ call.turn[t].pc = "classify"
    /\ LET session == [getSession(sessions, call.sessionId) EXCEPT
                           !.lastIntent = Some("confirm")]
       IN  IF IsSome(session.pendingBooking)
           THEN \E bookOutcome \in BookOutcomes :
                  LET res == executeBooking(Val(session.pendingBooking),
                                            call.turn[t].userEmail, bookOutcome)
                  IN  /\ call' = [call EXCEPT !.turn[t].pc = "booking",
                                              !.turn[t].response = Some(res.response),
                                              !.calls = @ \o res.calls]
                      /\ sessions' = [sessions EXCEPT ![call.sessionId] = Some(session)]
           ELSE /\ call' = [call EXCEPT !.turn[t].pc = "done",
                                        !.turn[t].response = Some("confirm_what")]
                /\ sessions' = [sessions EXCEPT ![call.sessionId] =
                                    Some([session EXCEPT !.conversationHistory =
                                              Append(@, AssistantLine)])]
    /\ UNCHANGED <<last, av>>

\* executeBooking has returned: the booking fields are cleared, the
\* Assistant line is pushed
ConfirmBooked(t) ==
    /\ call.pc = "turns" /\ call.turn[t].pc = "booking"
    /\ call' = [call EXCEPT !.turn[t].pc = "done"]
    /\ sessions' = [sessions EXCEPT ![call.sessionId] =
                        Some([getSession(sessions, call.sessionId) EXCEPT
                                  !.pendingBooking = None,
                                  !.partialMeetingData = None,
                                  !.proposedSlots = None,
                                  !.conversationHistory = Append(@, AssistantLine)])]
    /\ UNCHANGED <<last, av>>

ConfirmNext ==
    \E t \in TurnIds : ConfirmStart(t) \/ ConfirmClassified(t) \/ ConfirmBooked(t)

SpecConfirm == ConfirmInit /\ [][ConfirmNext]_vars

(***************************************************************************)
(* GraphClient.requestWithRetry: one step per invocation of the request    *)
(***************************************************************************)

\* err?.response?.status of a failed request; None: an error without response
Statuses == {None, Some(404), Some(429), Some(500), Some(503), Some(599)}

\* a failure that is retried whatever its status
retryable_AnyFailure(status) == TRUE

\* [429, 503].includes(status) || (status >= 500 && status < 600)
retryable(status) ==
    /\ IsSome(status)
    /\ \/ Val(status) \in {429, 503}
       \/ Val(status) >= 500 /\ Val(status) < 600

RequestOk == [ok |-> TRUE, status |-> None]

RequestFailed(status) == [ok |-> FALSE, status |-> status]

RequestOutcomes == {RequestOk} \cup {RequestFailed(status) : status \in Statuses}

RetryInit ==
    /\ \E session \in {None} \cup {Some(c) : c \in ConfirmSessions} :
          sessions = [id \in SessionIds |-> session]
    /\ last = NoTurn
    /\ av = AvIdle
    /\ \E maxRetries \in 0..MaxRetries :
          call = [pc |-> "loop", op |-> "requestWithRetry", maxRetries |-> maxRetries,
                  attempt |-> 0, lastErr |-> None, history |-> <<>>, out |-> None]

\* one pass of the loop body: fn() is awaited; a response is returned, a
\* failure is counted and then retried (after the wait) or rethrown
RetryInvoke ==
    /\ call.pc = "loop" /\ call.op = "requestWithRetry"
    /\ call.attempt <= call.maxRetries
    /\ \E outcome \in RequestOutcomes :
          IF outcome.ok
          THEN call' = [call EXCEPT !.pc = "returned", !.out = Some(outcome),
                                    !.history = Append(@, outcome)]
          ELSE call' = [call EXCEPT !.pc = IF retryable(outcome.status) THEN "loop"
                                           ELSE "thrown",
                                    !.attempt = @ + 1,
                                    !.lastErr = Some(outcome),
                                    !.out = IF retryable(outcome.status) THEN None
                                            ELSE Some(outcome),
                                    !.history = Append(@, outcome)]
    /\ UNCHANGED <<sessions, last, av>>

\* the loop condition fails: throw lastErr
RetryExhausted ==
    /\ call.pc = "loop" /\ call.op = "requestWithRetry"
    /\ call.attempt > call.maxRetries
    /\ call' = [call EXCEPT !.pc = "thrown", !.out = call.lastErr]
    /\ UNCHANGED <<sessions, last, av>>

RetryNext == RetryInvoke \/ RetryExhausted

SpecRetry == RetryInit /\ [][RetryNext]_vars

(***************************************************************************)
(* agentGraph: llm_rank -> parse_json -> route -> good_json | fallback     *)
(***************************************************************************)

\* a slot to rank; an absent `available` counts as false
RankSlot(start, end, available) == [start |-> start, end |-> end, available |-> available]

RankSlotPool ==
    {RankSlot(10 * 60, 11 * 60, FALSE), RankSlot(12 * 60, 13 * 60, TRUE),
     RankSlot(9 * 60, 10 * 60, TRUE), RankSlot(12 * 60, 14 * 60, TRUE)}

\* the slot lists of a run: distinct slots of the pool, in any order
RankInputs ==
    {s \in UNION {[1..n -> RankSlotPool] : n \in 0..MaxRankSlots} :
         \A i, j \in 1..Len(s) : s[i] = s[j] => i = j}

RankedSlot(rank, slot, score, reason) ==
    [rank |-> rank, start |-> slot.start, end |-> slot.end, score |-> score,
     reason |-> reason]

\* JSON arrays a model may answer for a slot list: the ranking asked for (here
\* in input order), an empty array, a ranking without the first slot, a
\* ranking of a slot that was not given
ModelArrays(slots) ==
    {[i \in 1..Len(slots) |-> RankedSlot(i, slots[i], 80, "llm")],
     <<>>,
     [i \in 1..(Len(slots) - 1) |-> RankedSlot(i, slots[i + 1], 80, "llm")],
     <<RankedSlot(1, RankSlot(20 * 60, 21 * 60, TRUE), 99, "llm")>>}

\* what the model call of llm_rank yields: it fails, or its text is a JSON
\* array, a JSON object, prose around a JSON array, or prose without one
ModelOutputs(slots) ==
    {[kind |-> "failed", array |-> <<>>], [kind |-> "object", array |-> <<>>],
     [kind |-> "prose", array |-> <<>>]}
    \cup {[kind |-> kind, array |-> a] :
              kind \in {"array", "embedded"}, a \in ModelArrays(slots)}

\* parseJSONNode: JSON.parse of the text if it is an array, else of the
\* first-[ to last-] part of the text if that is an array, else null
parseJSON(llm_output) ==
    IF ~IsSome(llm_output) THEN None
    ELSE IF Val(llm_output).kind \in {"array", "embedded"}
    THEN Some(Val(llm_output).array)
    ELSE None

\* the comparator of fallbackRankerNode
fallbackBefore(a, b) ==
    LET avA == IF a.available THEN 0 ELSE 1
        avB == IF b.available THEN 0 ELSE 1
    IN  IF avA # avB THEN avA < avB ELSE a.start < b.start

\* slots.slice().sort(...): a stable sort
RECURSIVE fallbackSort(_)
fallbackSort(s) ==
    IF s = <<>> THEN <<>>
    ELSE LET rest == fallbackSort(Tail(s))
             x == Head(s)
             k == Cardinality({i \in 1..Len(rest) : fallbackBefore(rest[i], x)})
         IN  SubSeq(rest, 1, k) \o <<x>> \o SubSeq(rest, k + 1, Len(rest))

\* fallbackRankerNode; scores are in hundredths
fallbackRanker(slots) ==
    LET sorted == fallbackSort(slots)
    IN  [i \in 1..Len(sorted) |->
             RankedSlot(i, sorted[i],
                        IF sorted[i].available THEN 90 - (i - 1) ELSE 10,
                        IF sorted[i].available THEN "Available & earliest"
                        ELSE "Unavailable")]

\* routeDecision: state.ranked_json ? "good_json" : "fallback" (an array,
\* empty or not, is truthy)
routeDecision(ranked_json) == IF IsSome(ranked_json) THEN "good_json" ELSE "fallback"

RankInit ==
    /\ sessions = [id \in SessionIds |-> None]
    /\ last = NoTurn
    /\ av = AvIdle
    /\ \E slots \in RankInputs :
          \E output \in ModelOutputs(slots) :
              call = [pc |-> "llm_rank", op |-> "agentGraph", slots |-> slots,
                      output |-> output, llm_output |-> None, ranked_json |-> None,
                      final_ranked |-> None]

AtNode(node) == call.op = "agentGraph" /\ call.pc = node

\* llmRankNode: the model is called; a failure ends the run with an error
LlmRank ==
    /\ AtNode("llm_rank")
    /\ call' = IF call.output.kind = "failed" THEN [call EXCEPT !.pc = "failed"]
               ELSE [call EXCEPT !.pc = "parse_json", !.llm_output = Some(call.output)]
    /\ UNCHANGED <<sessions, last, av>>

ParseJson ==
    /\ AtNode("parse_json")
    /\ call' = [call EXCEPT !.pc = "route", !.ranked_json = parseJSON(call.llm_output)]
    /\ UNCHANGED <<sessions, last, av>>

Route ==
    /\ AtNode("route")
    /\ call' = [call EXCEPT !.pc = routeDecision(call.ranked_json)]
    /\ UNCHANGED <<sessions, last, av>>

\* goodJsonNode: final_ranked = ranked_json
GoodJson ==
    /\ AtNode("good_json")
    /\ call' = [call EXCEPT !.pc = "end", !.final_ranked = call.ranked_json]
    /\ UNCHANGED <<sessions, last, av>>

Fallback ==
    /\ AtNode("fallback")
    /\ call' = [call EXCEPT !.pc = "end",
                            !.final_ranked = Some(fallbackRanker(call.slots))]
    /\ UNCHANGED <<sessions, last, av>>

RankNext == LlmRank \/ ParseJson \/ Route \/ GoodJson \/ Fallback

SpecRank == RankInit /\ [][RankNext]_vars

(***************************************************************************)
(* ConversationalService with a session organizer: the session remembers   *)
(* the signed-in user, attendee names are resolved to addresses, and        *)
(* executeBooking hands structured attendees to scheduleMeeting.            *)
(***************************************************************************)

\* a second signed-in user, and an attendee given by display name
Other == "you@corp.com"

AliceName == "Alice"

\* attendee.includes('@')
hasAt(attendee) == attendee # AliceName

\* graphClient.listUsers and the search in its result, for a display name
DirectoryOutcomes == {"found", "notFound", "failed"}

resolveAttendeesToEmails(attendees, directory) ==
    [i \in 1..Len(attendees) |->
         IF hasAt(attendees[i]) THEN attendees[i]
         ELSE IF directory = "found" THEN Alice
         ELSE attendees[i]]

NewSessionOf(organizerEmail) ==
    [organizerEmail |-> organizerEmail, conversationHistory |-> <<>>,
     lastIntent |-> None, partialMeetingData |-> None, proposedSlots |-> None,
     pendingBooking |-> None]

\* getSession that takes the email of every call
getSessionOrg_Overwrites(map, sessionId, organizerEmail) ==
    IF ~IsSome(map[sessionId]) THEN NewSessionOf(organizerEmail)
    ELSE IF IsSome(organizerEmail)
    THEN [Val(map[sessionId]) EXCEPT !.organizerEmail = organizerEmail]
    ELSE Val(map[sessionId])

\* getSession(sessionId, organizerEmail)
getSessionOrg(map, sessionId, organizerEmail) ==
    IF ~IsSome(map[sessionId]) THEN NewSessionOf(organizerEmail)
    ELSE IF IsSome(organizerEmail) /\ ~IsSome(Val(map[sessionId]).organizerEmail)
    THEN [Val(map[sessionId]) EXCEPT !.organizerEmail = organizerEmail]
    ELSE Val(map[sessionId])

\* cases 'schedule_new' and 'clarify' (the same code)
ScheduleCaseOrg(ctx, organizer, extracted, directory, sched, find, llmOk) ==
    LET merged == IF IsSome(ctx.partialMeetingData)
                  THEN mergeMeetingData(Val(ctx.partialMeetingData), extracted)
                  ELSE extracted
        meetingData == IF IsSome(merged.attendees) /\ IsSome(organizer)
                       THEN [merged EXCEPT !.attendees =
                                 Some(resolveAttendeesToEmails(Val(@), directory))]
                       ELSE merged
        ctx1 == [ctx EXCEPT !.partialMeetingData = Some(meetingData)]
    IN
    IF meetingData.isComplete
    THEN IF IsSome(organizer)
         THEN [checkAndPropose(ctx1, meetingData, Val(organizer), sched, find)
                   EXCEPT !.checked = TRUE]
         ELSE Outcome(ctx1, "need_identity", <<>>)
    ELSE IF llmOk THEN Outcome(ctx1, "clarifying_question", <<>>)
         ELSE Raise(ctx1, <<>>)

\* the attendees of the booking, with the other-domain ones left out
requiredAttendees_InternalOnly(bookingData) ==
    IF IsSome(bookingData.attendees)
    THEN LET sameDomain(a) == a \in {Organizer, Other, Alice}
             kept == SelectSeq(Val(bookingData.attendees), sameDomain)
         IN  [i \in 1..Len(kept) |-> [emailAddress |-> [address |-> kept[i]]]]
    ELSE <<>>

\* Array.isArray(bookingData.attendees) ? bookingData.attendees.map(...) : []
requiredAttendees(bookingData) ==
    IF IsSome(bookingData.attendees)
    THEN [i \in 1..Len(Val(bookingData.attendees)) |->
              [emailAddress |-> [address |-> Val(bookingData.attendees)[i]]]]
    ELSE <<>>

\* scheduleMeeting on a payload whose attendees are structured already: the
\* normalising map returns an attendee that is not a string as it is
scheduleMeetingStructured(dto, outcome) ==
    LET entry(ok) == ProviderCall("scheduleMeeting", dto.organizer, Some(dto.attendees),
                                  dto.start, dto.end, ok)
        create(ok) == ProviderCall("createEvent", dto.organizer, Some(dto.attendees),
                                   dto.start, dto.end, ok)
    IN
    IF outcome = "createEventFails"
    THEN [raised |-> TRUE, calls |-> <<entry(FALSE), create(FALSE)>>, created |-> FALSE]
    ELSE IF outcome = "recordFails"
    THEN [raised |-> TRUE, calls |-> <<entry(FALSE), create(TRUE)>>, created |-> TRUE]
    ELSE [raised |-> FALSE, calls |-> <<entry(TRUE), create(TRUE)>>, created |-> TRUE]

executeBookingOrg(bookingData, organizer, bookOutcome) ==
    LET dto == [subject |-> bookingData.subject,
                attendees |-> requiredAttendees(bookingData),
                start |-> bookingData.start, end |-> bookingData.end,
                organizer |-> OrElse(organizer, bookingData.organizer)]
        res == scheduleMeetingStructured(dto, bookOutcome)
    IN  [response |-> IF res.raised THEN "booking_error" ELSE "booked",
         calls |-> res.calls, created |-> res.created]

\* case 'confirm'
ConfirmCaseOrg(ctx, organizer, bookOutcome) ==
    IF IsSome(ctx.pendingBooking)
    THEN LET res == executeBookingOrg(Val(ctx.pendingBooking), organizer, bookOutcome)
         IN  Outcome([ctx EXCEPT !.pendingBooking = None,
                                 !.partialMeetingData = None,
                                 !.proposedSlots = None],
                     res.response, res.calls)
    ELSE Outcome(ctx, "confirm_what", <<>>)

\* the switch of processMessage
DispatchOrg(ctx, intent, slotId, organizer, extracted, directory, sched, find, bookOutcome, llmOk) ==
    CASE intent \in {"schedule_new", "clarify"} ->
             ScheduleCaseOrg(ctx, organizer, extracted, directory, sched, find, llmOk)
      [] intent = "confirm" -> ConfirmCaseOrg(ctx, organizer, bookOutcome)
      [] intent = "select_slot" -> SelectSlotCase(ctx, organizer, slotId)
      [] intent = "modify_existing" -> Outcome(ctx, "modify", <<>>)
      [] intent = "ask_question" -> AskQuestionCase(ctx, llmOk)
      [] intent = "cancel" -> Outcome(ctx, "cancelled", <<>>)
      [] intent = "query_meetings" -> Outcome(ctx, "use_agent_chat", <<>>)

processMessageOrg(map, sessionId, intent, slotId, userEmail, extracted, directory, sched, find, bookOutcome, llmOk) ==
    LET session == getSessionOrg(map, sessionId, userEmail)
        organizer == OrElse(session.organizerEmail, userEmail)
        ctx0 == [session EXCEPT !.conversationHistory = Append(@, UserLine),
                                !.lastIntent = Some(intent)]
        res == DispatchOrg(ctx0, intent, slotId, organizer, extracted, directory,
                           sched, find, bookOutcome, llmOk)
        ctx1 == IF res.raised THEN res.ctx
                ELSE [res.ctx EXCEPT !.conversationHistory =
                          Append(@, AssistantLine)]
        map1 == [map EXCEPT ![sessionId] = Some(ctx1)]
    IN  [sessions |-> IF intent = "cancel" THEN clearSession(map1, sessionId) ELSE map1,
         response |-> res.response, raised |-> res.raised, calls |-> res.calls,
         checked |-> res.checked]

OrgUserEmails == {None, Some(Organizer), Some(Other)}

\* what extractMeetingData can return in these conversations
OrgExtractions ==
    [subject    : {None},
     attendees  : {None, Some(<<AliceName, Bob>>)},
     startTime  : {None, Some(T1)},
     endTime    : {None, Some(E1)},
     duration   : {None},
     isComplete : BOOLEAN]

\* one processMessage call, run to completion
TurnOrg(sessionId, intent, slotId, userEmail, extracted, directory, sched, find, bookOutcome, llmOk) ==
    /\ last.n < MaxOrgTurns
    /\ \E res \in {processMessageOrg(sessions, sessionId, intent, slotId, userEmail,
                                    extracted, directory, sched, find, bookOutcome, llmOk)} :
           /\ sessions' = res.sessions
           /\ last' = [n |-> last.n + 1, sessionId |-> sessionId, intent |-> intent,
                       response |-> res.response, raised |-> res.raised,
                       calls |-> res.calls, checked |-> res.checked,
                       userEmail |-> userEmail]
    /\ UNCHANGED <<av, call>>

\* the external calls a schedule_new / clarify turn makes, and their outcomes
OrgScheduleTurn(intent) ==
    \E sessionId \in SessionIds, userEmail \in OrgUserEmails, x \in OrgExtractions :
        LET session == getSessionOrg(sessions, sessionId, userEmail)
            organizer == OrElse(session.organizerEmail, userEmail)
            resolves == IsSome(organizer)
                        /\ (IsSome(x.attendees)
                            \/ (IsSome(session.partialMeetingData)
                                /\ IsSome(Val(session.partialMeetingData).attendees)))
        IN  \E ext \in ExternalOutcomes(x.isComplete, organizer),
               directory \in IF resolves THEN DirectoryOutcomes ELSE {"notFound"} :
                TurnOrg(sessionId, intent, None, userEmail, x, directory,
                        ext.sched, ext.find, "ok", ext.llmOk)

OrgScheduleNew == OrgScheduleTurn("schedule_new")

OrgClarify == OrgScheduleTurn("clarify")

OrgConfirm ==
    \E sessionId \in SessionIds, userEmail \in OrgUserEmails, bookOutcome \in BookOutcomes :
        TurnOrg(sessionId, "confirm", None, userEmail, NoExtraction, "notFound",
                Failed, Failed, bookOutcome, TRUE)

\* extractedData.slotId in these conversations
OrgSlotIds == {None, Some(<<"1">>), Some(<<"s", "2">>), Some(<<"5">>)}

OrgSelectSlot ==
    \E sessionId \in SessionIds, userEmail \in OrgUserEmails, slotId \in OrgSlotIds :
        TurnOrg(sessionId, "select_slot", slotId, userEmail, NoExtraction, "notFound",
                Failed, Failed, "ok", TRUE)

OrgModifyExisting ==
    \E sessionId \in SessionIds, userEmail \in OrgUserEmails :
        TurnOrg(sessionId, "modify_existing", None, userEmail, NoExtraction, "notFound",
                Failed, Failed, "ok", TRUE)

OrgAskQuestion ==
    \E sessionId \in SessionIds, userEmail \in OrgUserEmails, llmOk \in BOOLEAN :
        TurnOrg(sessionId, "ask_question", None, userEmail, NoExtraction, "notFound",
                Failed, Failed, "ok", llmOk)

OrgCancel ==
    \E sessionId \in SessionIds, userEmail \in OrgUserEmails :
        TurnOrg(sessionId, "cancel", None, userEmail, NoExtraction, "notFound",
                Failed, Failed, "ok", TRUE)

OrgQueryMeetings ==
    \E sessionId \in SessionIds, userEmail \in OrgUserEmails :
        TurnOrg(sessionId, "query_meetings", None, userEmail, NoExtraction, "notFound",
                Failed, Failed, "ok", TRUE)

OrgInit ==
    /\ sessions = [id \in SessionIds |-> None]
    /\ last = NoTurn @@ [userEmail |-> None]
    /\ av = AvIdle
    /\ call = CallIdle

OrgNext ==
    \/ OrgScheduleNew
    \/ OrgClarify
    \/ OrgConfirm
    \/ OrgSelectSlot
    \/ OrgModifyExisting
    \/ OrgAskQuestion
    \/ OrgCancel
    \/ OrgQueryMeetings

SpecOrg == OrgInit /\ [][OrgNext]_vars

(***************************************************************************)
(* Properties of the conversation                                          *)
(***************************************************************************)

\* the turn that has just been taken, seen from a step of the conversation
TurnStep == last'.n = last.n + 1

Before == getSession(sessions, last'.sessionId)

Existed == IsSome(sessions[last'.sessionId])

Exists == IsSome(sessions'[last'.sessionId])

After == Val(sessions'[last'.sessionId])

IsBookingCall(c) == c.op = "scheduleMeeting"

BookingCalls(calls) == SelectSeq(calls, IsBookingCall)

\* a confirm turn that finds a pending booking
ConfirmWithPending ==
    TurnStep /\ last'.intent = "confirm" /\ Existed /\ IsSome(Before.pendingBooking)

\* C1: a confirm turn that finds pendingBooking issues exactly one
\* scheduleMeeting call with the pending booking's start, end and attendees;
\* afterwards pendingBooking, partialMeetingData and proposedSlots are absent,
\* the session and its history (grown by the turn's two lines) remain, and a
\* confirm that directly follows issues no booking call.
C1_ConfirmStep ==
    /\ ConfirmWithPending =>
          LET pending == Val(Before.pendingBooking)
              booked == BookingCalls(last'.calls)
          IN  /\ Len(booked) = 1
              /\ booked[1].start = pending.start
              /\ booked[1].end = pending.end
              /\ booked[1].attendees = pending.attendees
              /\ Exists
              /\ After.pendingBooking = None
              /\ After.partialMeetingData = None
              /\ After.proposedSlots = None
              /\ After.conversationHistory =
                     Before.conversationHistory \o <<UserLine, AssistantLine>>
    /\ (/\ TurnStep
        /\ last.intent = "confirm" /\ BookingCalls(last.calls) # <<>>
        /\ last'.intent = "confirm" /\ last'.sessionId = last.sessionId)
          => BookingCalls(last'.calls) = <<>>

C2_FailedBookingStep ==
    (/\ ConfirmWithPending
     /\ \E i \in 1..Len(last'.calls) :
            last'.calls[i].op = "scheduleMeeting" /\ ~last'.calls[i].ok)
      => /\ ~last'.raised
         /\ last'.response = Some("booking_error")
         /\ Exists
         /\ After.pendingBooking = Before.pendingBooking
         /\ After.partialMeetingData = Before.partialMeetingData
         /\ After.proposedSlots = Before.proposedSlots

C2_FailedBookingKeepsState == [][C2_FailedBookingStep]_vars

ScheduleIntents == {"schedule_new", "clarify"}

\* C3, first half, on every schedule_new / clarify turn that can follow a state
\* reached within MaxMergeDepth turns: a field that is non-null in
\* partialMeetingData and that the extraction returns null keeps its value.
C3_NullKeepsField ==
    \A sessionId \in SessionIds :
        (/\ last.n < MaxMergeDepth
         /\ IsSome(sessions[sessionId])
         /\ IsSome(Val(sessions[sessionId]).partialMeetingData))
          => LET old == Val(Val(sessions[sessionId]).partialMeetingData)
             IN  \A intent \in ScheduleIntents, i \in ReadInputs :
                     LET res == processMessage(sessions, sessionId, intent, None,
                                    i.userEmail, i.x, i.ext.sched, i.ext.find,
                                    "ok", i.ext.llmOk)
                         new == Val(res.sessions[sessionId]).partialMeetingData
                     IN  /\ IsSome(new)
                         /\ \A f \in MeetingFields :
                                (IsSome(old[f]) /\ ~IsSome(i.x[f])) => Val(new)[f] = old[f]

\* C3, second half, on every step: a non-null field changes or disappears
\* only by a schedule_new / clarify turn that leaves it non-null, by a confirm
\* turn whose booking succeeds, or by cancel.
C3_ChangeStep ==
    \A f \in MeetingFields :
        (/\ TurnStep /\ Existed
         /\ IsSome(Before.partialMeetingData)
         /\ IsSome(Val(Before.partialMeetingData)[f])
         /\ \/ ~Exists
            \/ ~IsSome(After.partialMeetingData)
            \/ Val(After.partialMeetingData)[f] # Val(Before.partialMeetingData)[f])
          => \/ /\ last'.intent \in ScheduleIntents
                /\ Exists /\ IsSome(After.partialMeetingData)
                /\ IsSome(Val(After.partialMeetingData)[f])
             \/ /\ last'.intent = "confirm"
                /\ \E i \in 1..Len(last'.calls) :
                       last'.calls[i].op = "scheduleMeeting" /\ last'.calls[i].ok
             \/ last'.intent = "cancel"

\* C3: the merge of partialMeetingData is monotonic: nulls of a later
\* extraction never erase or change a known field, and only a non-null value,
\* a confirm that books or cancel changes one.
C3_MonotonicMerge == []C3_NullKeepsField /\ [][C3_ChangeStep]_vars

\* the completeness rule of a meeting request
C4_Complete(m) ==
    /\ IsSome(m.attendees) /\ Len(Val(m.attendees)) > 0
    /\ IsSome(m.startTime)
    /\ IsSome(m.endTime) \/ IsSome(m.duration)

\* C4: in a schedule_new / clarify turn (of a user whose identity is known)
\* the availability check runs exactly when the merged request, which the
\* turn stores as partialMeetingData, satisfies the completeness rule.
C4_CheckIffComplete ==
    (/\ last.intent \in ScheduleIntents
     /\ last.response # Some("need_identity")
     /\ IsSome(sessions[last.sessionId]))
      => LET merged == Val(Val(sessions[last.sessionId]).partialMeetingData)
         IN  last.checked <=> C4_Complete(merged)

\* the integer formed by the digits of a slotId (0 when it has none)
RECURSIVE C5_Ordinal(_, _)
C5_Ordinal(str, acc) ==
    IF str = <<>> THEN acc
    ELSE IF Head(str) \in {"0", "1", "2", "3", "4", "5", "6", "7", "8", "9"}
         THEN C5_Ordinal(Tail(str), 10 * acc + DigitValue(Head(str)))
         ELSE C5_Ordinal(Tail(str), acc)

\* C5: a select_slot turn on n >= 1 proposed slots sets pendingBooking to slot
\* k (start and end of proposedSlots[k], subject and attendees of
\* partialMeetingData) when the digits of slotId form k in 1..n; otherwise it
\* asks which slot is meant and leaves pendingBooking alone.  It never raises.
C5_SelectSlotByOrdinal ==
    \A sessionId \in SessionIds :
        (/\ IsSome(sessions[sessionId])
         /\ IsSome(Val(sessions[sessionId]).proposedSlots)
         /\ Len(Val(Val(sessions[sessionId]).proposedSlots)) >= 1)
          => LET ctx == Val(sessions[sessionId])
                 slots == Val(ctx.proposedSlots)
             IN  \A slotId \in SlotIds, userEmail \in UserEmails :
                     LET res == processMessage(sessions, sessionId, "select_slot",
                                    slotId, userEmail, NoExtraction, Failed, Failed,
                                    "ok", TRUE)
                         after == Val(res.sessions[sessionId])
                         k == IF IsSome(slotId) THEN C5_Ordinal(Val(slotId), 0) ELSE 0
                     IN  /\ ~res.raised
                         /\ IF k >= 1 /\ k <= Len(slots)
                            THEN /\ IsSome(after.pendingBooking)
                                 /\ Val(after.pendingBooking).start = Some(slots[k].start)
                                 /\ Val(after.pendingBooking).end = Some(slots[k].end)
                                 /\ Val(after.pendingBooking).subject =
                                        Val(ctx.partialMeetingData).subject
                                 /\ Val(after.pendingBooking).attendees =
                                        Val(ctx.partialMeetingData).attendees
                            ELSE /\ res.response = Some("which_slot")
                                 /\ after.pendingBooking = ctx.pendingBooking

\* the second of three proposed slots has just been selected
C5_Witness ==
    /\ last.intent = "select_slot"
    /\ last.response = Some("selected")
    /\ IsSome(sessions[last.sessionId])
    /\ LET ctx == Val(sessions[last.sessionId])
       IN  /\ Len(Val(ctx.proposedSlots)) = 3
           /\ Val(ctx.pendingBooking).start = Some(Val(ctx.proposedSlots)[2].start)
           /\ Val(ctx.pendingBooking).end = Some(Val(ctx.proposedSlots)[2].end)

\* C6: a cancel turn removes the session from the map, and the turn that
\* follows on the same sessionId starts from a fresh session: its history
\* holds only that turn's own lines, nothing of the old request is left, and
\* a confirm books nothing.
C6_CancelStep ==
    /\ (TurnStep /\ last'.intent = "cancel") => sessions'[last'.sessionId] = None
    /\ (TurnStep /\ last.intent = "cancel" /\ last'.sessionId = last.sessionId)
          => /\ ~Existed
             /\ Before = NewSession
             /\ last'.intent # "cancel" =>
                   /\ Exists
                   /\ After.conversationHistory \in
                          {<<UserLine>>, <<UserLine, AssistantLine>>}
                   /\ last'.intent \notin ScheduleIntents =>
                         /\ After.partialMeetingData = None
                         /\ After.proposedSlots = None
                         /\ After.pendingBooking = None
             /\ last'.intent = "confirm" =>
                   /\ last'.calls = <<>>
                   /\ last'.response = Some("confirm_what")

C6_CancelStartsFresh == [][C6_CancelStep]_vars

\* a session that lived through at least one earlier turn has just been cancelled
C6_Witness ==
    /\ last.intent = "cancel"
    /\ last.n >= 2
    /\ sessions[last.sessionId] = None

(***************************************************************************)
(* Properties of checkAvailability                                         *)
(***************************************************************************)

AvDone == av.pc = "done"

\* the call had attendees to check and a valid requested window
AvChecked ==
    /\ Len(Val(av.attendees)) > 0
    /\ IsSome(av.startTime) /\ IsSome(av.endTime)

\* the schedule items getSchedule handed back (none when it was not called
\* or failed)
AvItems ==
    IF AvChecked /\ av.sched.ok
    THEN UNION {Range(av.sched.value[i].scheduleItems) : i \in 1..Len(av.sched.value)}
    ELSE {}

\* some returned item is busy or tentative and overlaps the requested window
AvConflict ==
    \E item \in AvItems :
        /\ item.status \in {"busy", "tentative"}
        /\ Val(av.startTime) < item.end
        /\ item.start < Val(av.endTime)

CallsOf(op) == SelectSeq(av.out.calls, LAMBDA c : c.op = op)

OneItem(start, end, status) ==
    ScheduleResponse(<<Schedule(Alice, <<Item(start, end, status)>>)>>)

\* isSlotBusy of a 10:00-11:00 request against a single schedule item
BusyAgainst(start, end, status) ==
    checkAvailability(Organizer, Some(10 * 60), Some(11 * 60), Some(<<Alice>>),
                      OneItem(start, end, status), Failed, Now).isSlotBusy

\* C7: checkAvailability reports the slot busy exactly when some returned
\* schedule item has status busy or tentative and requestedStart < itemEnd and
\* itemStart < requestedEnd; (10:00,11:00) conflicts with (10:30,10:45), not
\* with (11:00,12:00), and an item of another status never makes it busy.
C7_BusyIffOverlap ==
    /\ AvDone => (av.out.isSlotBusy <=> AvConflict)
    /\ BusyAgainst(10 * 60 + 30, 10 * 60 + 45, "busy")
    /\ BusyAgainst(10 * 60 + 30, 10 * 60 + 45, "tentative")
    /\ ~BusyAgainst(11 * 60, 12 * 60, "busy")
    /\ ~BusyAgainst(9 * 60, 10 * 60, "tentative")
    /\ ~BusyAgainst(10 * 60 + 30, 10 * 60 + 45, "free")

\* a busy item starts exactly where the request ends (and a tentative one ends
\* exactly where it starts), and the slot is reported free
C7_Witness ==
    /\ AvDone /\ AvChecked /\ av.sched.ok
    /\ \E item \in AvItems : item.status = "busy" /\ item.start = Val(av.endTime)
    /\ \E item \in AvItems : item.status = "tentative" /\ item.end = Val(av.startTime)
    /\ ~av.out.isSlotBusy

C9_AtMostFiveRankedFuture ==
    (AvDone /\ av.out.isSlotBusy)
      => LET alts == av.out.alternativeSlots
         IN  /\ Len(alts) <= 5
             /\ \A i \in 1..Len(alts) :
                    /\ alts[i].rank = i
                    /\ alts[i].start >= av.now

\* six suggestions, none in the past, for a busy slot: five are returned
C9_Witness ==
    /\ AvDone /\ av.out.isSlotBusy
    /\ av.find.ok
    /\ Len(av.find.suggestions) >= 6
    /\ \A i \in 1..Len(av.find.suggestions) : av.find.suggestions[i].start >= av.now
    /\ Len(av.out.alternativeSlots) = 5

\* minute of the day at UTC+5:30, and the day it falls on
C10_LocalMinute(t) == (t + 5 * 60 + 30) % (24 * 60)

C10_LocalDay(t) == (t + 5 * 60 + 30) \div (24 * 60)

\* C10: every alternative starts at or after 09:00 and ends at or before
\* 18:00 of the same day, local time of UTC+5:30.
C10_InsideBusinessHours ==
    AvDone =>
        \A i \in 1..Len(av.out.alternativeSlots) :
            LET slot == av.out.alternativeSlots[i]
            IN  /\ C10_LocalMinute(slot.start) >= 9 * 60
                /\ C10_LocalMinute(slot.end) <= 18 * 60
                /\ C10_LocalDay(slot.start) = C10_LocalDay(slot.end)

\* the busy intervals of the checked attendees: those the query returned and
\* those outside the requested window
AvCalendar == AvItems \cup (IF AvChecked THEN Range(av.outside) ELSE {})

\* C11: no alternative overlaps (half-open rule, status busy or tentative) a
\* busy interval of a checked attendee, inside or outside the requested
\* window.
C11_AlternativesAvoidBusy ==
    AvDone =>
        \A i \in 1..Len(av.out.alternativeSlots) :
            \A item \in AvCalendar :
                item.status \in {"busy", "tentative"}
                  => ~(/\ av.out.alternativeSlots[i].start < item.end
                       /\ item.start < av.out.alternativeSlots[i].end)

\* the ranking key of a candidate start against the requested start
C12_Close(t, req) == (IF t < req THEN req - t ELSE t - req) <= 3 * 60

C12_SameDay(t, req) == t \div (24 * 60) = req \div (24 * 60)

C12_Distance(t, req) == IF t < req THEN req - t ELSE t - req

\* a goes strictly before b in the claimed order
C12_Before(a, b, req) ==
    \/ C12_Close(a, req) /\ ~C12_Close(b, req)
    \/ /\ C12_Close(a, req) = C12_Close(b, req)
       /\ C12_SameDay(a, req) /\ ~C12_SameDay(b, req)
    \/ /\ C12_Close(a, req) = C12_Close(b, req)
       /\ C12_SameDay(a, req) = C12_SameDay(b, req)
       /\ C12_Distance(a, req) < C12_Distance(b, req)

\* the candidates that pass the filter, in the provider's order
C12_Survivors ==
    IF av.find.ok
    THEN SelectSeq(av.find.suggestions,
                   LAMBDA slot : KeepCandidate(slot, av.sched.value, av.now))
    ELSE <<>>

\* the starts of the ranking of the four example candidates, given in order p
C12_Example(req, cands, p) ==
    LET sorted == SortSlots([i \in 1..4 |-> Slot(cands[p[i]], cands[p[i]] + 30)], req)
    IN  [i \in 1..4 |-> sorted[i].start]

C12_Permutations == {p \in [1..4 -> 1..4] : \A i, j \in 1..4 : p[i] = p[j] => i = j}

\* the example candidates, offered in any order, come out in the claimed order
C12_ExampleRanked ==
    \A p \in C12_Permutations :
        /\ C12_Example(10 * 60, <<10 * 60 + 30, 12 * 60, 14 * 60, 35 * 60>>, p)
               = <<10 * 60 + 30, 12 * 60, 14 * 60, 35 * 60>>
        /\ C12_Example(23 * 60 + 30,
                       <<23 * 60, 21 * 60 + 30, 19 * 60 + 30, 24 * 60 + 30>>, p)
               = <<23 * 60, 21 * 60 + 30, 24 * 60 + 30, 19 * 60 + 30>>

\* C12: the alternatives are the first five surviving candidates in the order
\* within-3-hours first, then same calendar day, then ascending distance from
\* the requested start; the example {30 min, 2 h, 4 h same day, 1 h next day}
\* ranks 30 min, 2 h, and then the other two (next day read as the next day's
\* slot one hour later, and as a slot one hour away across midnight).
C12_RankedOrder ==
    /\ (AvDone /\ av.out.isSlotBusy) =>
          LET alts == av.out.alternativeSlots
              req == Val(av.startTime)
              n == Len(C12_Survivors)
          IN  /\ Len(alts) = IF n < 5 THEN n ELSE 5
              /\ \A i \in 1..Len(alts) :
                     \E k \in 1..n : /\ C12_Survivors[k].start = alts[i].start
                                     /\ C12_Survivors[k].end = alts[i].end
              /\ \A i, j \in 1..Len(alts) :
                     i < j => ~C12_Before(alts[j].start, alts[i].start, req)
              /\ \A k \in 1..n :
                     (\A i \in 1..Len(alts) : alts[i].start # C12_Survivors[k].start)
                       => \A i \in 1..Len(alts) :
                              ~C12_Before(C12_Survivors[k].start, alts[i].start, req)
    /\ C12_ExampleRanked

\* six candidates survive for a busy slot; the five returned start with one
\* within three hours and end with one that is not
C12_Witness ==
    /\ AvDone /\ av.out.isSlotBusy
    /\ Len(C12_Survivors) = 6
    /\ Len(av.out.alternativeSlots) = 5
    /\ C12_Close(av.out.alternativeSlots[1].start, Val(av.startTime))
    /\ ~C12_Close(av.out.alternativeSlots[5].start, Val(av.startTime))

\* the calendar lookup of the turn just taken failed
C13_LookupFailed ==
    \E i \in 1..Len(last'.calls) :
        last'.calls[i].op = "getSchedule" /\ ~last'.calls[i].ok

\* C13: a schedule_new / clarify turn whose availability query fails answers
\* with a generic try-again response, does not report the slot available,
\* leaves pendingBooking as it was and keeps partialMeetingData.
C13_FailedLookupStep ==
    (TurnStep /\ last'.intent \in ScheduleIntents /\ C13_LookupFailed)
      => /\ ~last'.raised
         /\ last'.response = Some("try_again")
         /\ Exists
         /\ After.pendingBooking = Before.pendingBooking
         /\ IsSome(After.partialMeetingData)

C13_FailedLookupNotAvailable == [][C13_FailedLookupStep]_vars

\* a window that starts before the clock, ends at or before its start, or
\* ends after 18:00 local time (UTC+5:30)
C14_InvalidWindow(start, end) ==
    \/ start < Now
    \/ end <= start
    \/ (end + 5 * 60 + 30) % (24 * 60) > 18 * 60

\* every requested window of InvalidWindowExtractions breaks a constraint
C14_AllInvalid ==
    \A x \in InvalidWindowExtractions :
        C14_InvalidWindow(Val(x.startTime), Val(x.endTime))

\* C14: a schedule_new / clarify turn of a known user whose complete request
\* has an invalid window is answered with a message naming the violated
\* constraint and sets neither pendingBooking nor proposedSlots, in every
\* state of the conversation and whatever the calendar answers.
C14_InvalidWindowRejected ==
    /\ C14_AllInvalid
    /\ \A sessionId \in SessionIds, intent \in ScheduleIntents,
          x \in InvalidWindowExtractions, sched \in ConvSchedules :
           LET before == getSession(sessions, sessionId)
               res == processMessage(sessions, sessionId, intent, None,
                                     Some(Organizer), x, sched, Failed, "ok", TRUE)
               after == Val(res.sessions[sessionId])
           IN  /\ res.response = Some("invalid_window")
               /\ after.pendingBooking = before.pendingBooking
               /\ after.proposedSlots = before.proposedSlots

\* C16: no outcome of the extractor (extractMeetingData, the clarifying
\* question) makes a schedule_new / clarify turn raise: the turn returns a
\* response.
C16_ScheduleTurnReturns ==
    last.intent \in ScheduleIntents => (~last.raised /\ IsSome(last.response))

\* C17: every turn (a cancel turn, which removes the session, aside) leaves
\* the session with its history grown by exactly a User line and an Assistant
\* line, whether or not an external call failed.
C17_TwoLinesStep ==
    (TurnStep /\ last'.intent # "cancel")
      => /\ Exists
         /\ After.conversationHistory =
                Before.conversationHistory \o <<UserLine, AssistantLine>>

C17_TwoLinesPerTurn == [][C17_TwoLinesStep]_vars

\* the three booking fields of a session
C18_Fields(ctx) == <<ctx.partialMeetingData, ctx.proposedSlots, ctx.pendingBooking>>

\* C18: a confirm turn without pendingBooking and a select_slot turn with
\* absent or empty proposedSlots answer with a clarification prompt, do not
\* raise, call no provider and leave partialMeetingData, proposedSlots and
\* pendingBooking unchanged.
C18_NothingToActOnStep ==
    /\ (TurnStep /\ last'.intent = "confirm" /\ Before.pendingBooking = None)
          => /\ ~last'.raised
             /\ last'.response = Some("confirm_what")
             /\ last'.calls = <<>>
             /\ Exists /\ C18_Fields(After) = C18_Fields(Before)
    /\ (/\ TurnStep /\ last'.intent = "select_slot"
        /\ Before.proposedSlots \in {None, Some(<<>>)})
          => /\ ~last'.raised
             /\ last'.response = Some("no_slots")
             /\ last'.calls = <<>>
             /\ Exists /\ C18_Fields(After) = C18_Fields(Before)

C18_NothingToActOn == [][C18_NothingToActOnStep]_vars

\* a select_slot turn has just found an empty list of proposed slots on a
\* session that holds a request
C18_Witness ==
    /\ last.intent = "select_slot"
    /\ last.response = Some("no_slots")
    /\ IsSome(sessions[last.sessionId])
    /\ Val(sessions[last.sessionId]).proposedSlots = Some(<<>>)
    /\ IsSome(Val(sessions[last.sessionId]).partialMeetingData)

(***************************************************************************)
(* Properties of the parsers                                               *)
(***************************************************************************)

ParseDone(op) == call.pc = "done" /\ call.op = op

\* C15: classifyIntent always returns: for a failed call, text without JSON,
\* unparsable JSON or an object outside the schema it returns ask_question
\* with confidence 0.5, and every value it returns has one of the seven
\* intents and a confidence in [0, 1].
C15_ClassifierAlwaysReturns ==
    ParseDone("classifyIntent") =>
        /\ ~call.out.raised
        /\ IsSome(call.out.value)
        /\ Val(call.out.value).intent \in
               {"schedule_new", "modify_existing", "ask_question", "clarify",
                "cancel", "confirm", "select_slot"}
        /\ Val(call.out.value).confidence \in 0..10
        /\ LET c == call.completion
           IN  (\/ c.kind # "object"
                \/ Val(c.obj).intent = "chitchat"
                \/ Val(c.obj).confidence \notin 0..10)
                 => Val(call.out.value) = [intent |-> "ask_question", confidence |-> 5]

\* C19: the isComplete flag and the missingFields that extractMeetingData
\* returns follow from the fields it returns (attendees non-empty, startTime,
\* endTime or duration), whatever the model reported.
C19_CompletenessRecomputed ==
    (ParseDone("extractMeetingData") /\ ~call.out.raised) =>
        LET m == Val(call.out.value)
        IN  /\ m.isComplete = Some(C4_Complete(m))
            /\ (m.missingFields = <<>>) <=> C4_Complete(m)

\* the earliest start a request may have: the clock on the clock's day, the
\* window-open time (04:30 UTC) on another day
C20_Earliest(start, nowT) ==
    IF start \div (24 * 60) = nowT \div (24 * 60) THEN nowT
    ELSE (start \div (24 * 60)) * (24 * 60) + 4 * 60 + 30

\* the closing time (15:30 UTC) of the day a request ends on
C20_Cutoff(end) == (end \div (24 * 60)) * (24 * 60) + 15 * 60 + 30

\* C20: suggestSlots accepts a (start, end) pair exactly when start is not
\* before the effective earliest start, end is after start and end is not
\* after the cutoff of its day; a rejection names a clause that is violated.
C20_AcceptsExactlyValid ==
    (/\ ParseDone("suggestSlots")
     /\ IsSome(call.dto.start) /\ IsSome(call.dto.end) /\ call.dto.attendees # <<>>)
      => LET start == Val(call.dto.start)
             end == Val(call.dto.end)
             startOk == start >= C20_Earliest(start, call.now)
             orderOk == end > start
             endOk == end <= C20_Cutoff(end)
         IN  /\ call.out.accepted <=> (startOk /\ orderOk /\ endOk)
             /\ ~call.out.accepted =>
                   \/ call.out.error = Some("start_before_earliest") /\ ~startOk
                   \/ call.out.error = Some("end_not_after_start") /\ ~orderOk
                   \/ call.out.error = Some("end_after_cutoff") /\ ~endOk

(***************************************************************************)
(* Properties of the conversation with a session organizer                 *)
(***************************************************************************)

IsCreateEvent(c) == c.op = "createEvent"

\* the {emailAddress: {address}} form of an attendee
C21_Structured(address) == [emailAddress |-> [address |-> address]]

\* C21: the calendar event of a booking lists every attendee of the pending
\* request, other-domain attendees included, each once and in order, in the
\* form {emailAddress: {address}}.
C21_EventListsAllStep ==
    (/\ TurnStep /\ last'.intent = "confirm" /\ Existed
     /\ IsSome(Before.pendingBooking)
     /\ IsSome(Val(Before.pendingBooking).attendees))
      => LET pending == Val(Val(Before.pendingBooking).attendees)
             events == SelectSeq(last'.calls, IsCreateEvent)
         IN  /\ Len(events) = 1
             /\ Len(Val(events[1].attendees)) = Len(pending)
             /\ \A i \in 1..Len(pending) :
                    Val(events[1].attendees)[i] = C21_Structured(pending[i])

domainOf(email) ==
    CASE email \in {Organizer, Other, Alice} -> Some("corp.com")
      [] email = Bob -> Some("partner.org")
      [] OTHER -> None

isInternalUser(email, organizerEmail) == domainOf(email) = domainOf(organizerEmail)

IsGetSchedule(c) == c.op = "getSchedule"

\* C22: in a schedule_new or clarify turn the busy-interval query is sent for
\* internal attendees only (same mail domain as the organizer), so that an
\* external attendee is never queried and cannot make the slot busy.
C22_OnlyInternalQueried ==
    last.intent \in ScheduleIntents =>
        \A i \in 1..Len(last.calls) :
            IsGetSchedule(last.calls[i]) =>
                \A k \in 1..Len(Val(last.calls[i].attendees)) :
                    isInternalUser(Val(last.calls[i].attendees)[k],
                                   Val(last.calls[i].organizer))

\* C23: once a session has an organizerEmail, a later turn neither changes
\* nor clears it, whatever user email the call passes, and every
\* availability check and booking of the turn is made for that organizer;
\* only a cancel turn, which destroys the session, removes it.
C23_OrganizerKeptStep ==
    (TurnStep /\ Existed /\ IsSome(Val(sessions[last'.sessionId]).organizerEmail))
      => LET organizerEmail == Val(sessions[last'.sessionId]).organizerEmail
         IN  /\ last'.intent # "cancel"
                  => Exists /\ After.organizerEmail = organizerEmail
             /\ last'.intent = "cancel" => ~Exists
             /\ \A i \in 1..Len(last'.calls) : last'.calls[i].organizer = organizerEmail

C23_OrganizerKept == [][C23_OrganizerKeptStep]_vars

\* a confirm turn called for another user has booked for the session's organizer
C23_Witness ==
    /\ last.intent = "confirm"
    /\ last.userEmail = Some(Other)
    /\ IsSome(sessions[last.sessionId])
    /\ Val(sessions[last.sessionId]).organizerEmail = Some(Organizer)
    /\ \E i \in 1..Len(last.calls) :
          IsBookingCall(last.calls[i]) /\ last.calls[i].organizer = Some(Organizer)

(***************************************************************************)
(* Properties of LLMProvider                                               *)
(***************************************************************************)

\* the first of groq, azure, openai whose key is set and not empty
C24_First(env) ==
    LET set(k) == env[k] \notin {<<>>, <<"">>}
    IN  CASE set("GROQ_API_KEY") -> "groq"
          [] ~set("GROQ_API_KEY") /\ set("AZURE_OPENAI_API_KEY") -> "azure"
          [] ~set("GROQ_API_KEY") /\ ~set("AZURE_OPENAI_API_KEY")
                 /\ set("OPENAI_API_KEY") -> "openai"
          [] OTHER -> "none"

\* the chat-model class of a provider
C24_ClassOf(provider) ==
    CASE provider = "groq" -> "ChatGroq"
      [] provider = "azure" -> "AzureChatOpenAI"
      [] provider = "openai" -> "ChatOpenAI"

C25_OnlyLatestCheckStep ==
    (TurnStep /\ last'.intent \in ScheduleIntents /\ last'.checked /\ ~last'.raised)
      => /\ Exists
         /\ last'.response = Some("available")
               => /\ IsSome(After.pendingBooking)
                  /\ Val(After.pendingBooking).start = Val(After.partialMeetingData).startTime
                  /\ Val(After.pendingBooking).end = Val(After.partialMeetingData).endTime
                  /\ After.proposedSlots \in {None, Some(<<>>)}
         /\ last'.response \in {Some("alternatives"), Some("busy_no_alternatives")}
               => /\ IsSome(After.proposedSlots)
                  /\ After.pendingBooking = None

C25_OnlyLatestCheck == [][C25_OnlyLatestCheckStep]_vars

\* C26: when two confirm turns of one session are in flight at the same time
\* while one pendingBooking is present, the booking call is issued at most
\* once.
C26_BookedAtMostOnce ==
    call.pc = "turns" => Len(BookingCalls(call.calls)) <= 1

\* C27: in every session a present pendingBooking has a start and an end
\* with start before end and a non-empty attendee list, and non-empty
\* proposedSlots come with a partialMeetingData.
C27_WellFormedBooking ==
    \A id \in SessionIds :
        IsSome(sessions[id]) =>
            LET ctx == Val(sessions[id])
            IN  /\ IsSome(ctx.pendingBooking) =>
                      LET booking == Val(ctx.pendingBooking)
                      IN  /\ IsSome(booking.start) /\ IsSome(booking.end)
                          /\ Val(booking.start) < Val(booking.end)
                          /\ IsSome(booking.attendees)
                          /\ Val(booking.attendees) # <<>>
                /\ (IsSome(ctx.proposedSlots) /\ Val(ctx.proposedSlots) # <<>>)
                      => IsSome(ctx.partialMeetingData)

\* the calendar event of the turn's booking exists
C28_EventCreated ==
    \E i \in 1..Len(last.calls) : IsCreateEvent(last.calls[i]) /\ last.calls[i].ok

\* C28: what a confirm turn tells the user matches the calendar: 'scheduled
\* successfully' only if the event was created, the error message only if
\* no event was created.
C28_OutcomeMatchesCalendar ==
    last.intent = "confirm" =>
        /\ last.response = Some("booked") => C28_EventCreated
        /\ last.response = Some("booking_error") => ~C28_EventCreated

(***************************************************************************)
(* Properties of GraphClient.requestWithRetry                              *)
(***************************************************************************)

\* a failure with status 429 or 5xx
C29_Transient(outcome) ==
    /\ ~outcome.ok
    /\ outcome.status \in {<<429>>} \cup {<<n>> : n \in 500..599}

\* the turns a session can take next, with every outcome of the calendar
C29_TurnCalls ==
    {processMessage(sessions, sessionId, intent, Some(<<"1">>), Some(Organizer),
                    [NoExtraction EXCEPT !.attendees = Some(<<Alice, Bob>>),
                                         !.startTime = Some(T1),
                                         !.endTime = Some(E1), !.isComplete = TRUE],
                    sched, find, bookOutcome, TRUE).calls :
         sessionId \in SessionIds, intent \in Intents, sched \in ConvSchedules,
         find \in ConvFinds, bookOutcome \in BookOutcomes}

\* C29: requestWithRetry invokes the request at most maxRetries + 1 times;
\* it returns the first successful response, invokes again only after a
\* failure with status 429 or 5xx, rethrows any other failure at once and
\* throws the last error when the budget is used up; a turn of the
\* conversation issues no provider call twice.
C29_BoundedRetry ==
    call.op = "requestWithRetry" =>
        LET n == Len(call.history)
        IN  /\ n <= call.maxRetries + 1
            /\ \A i \in 1..(n - 1) : C29_Transient(call.history[i])
            /\ call.pc = "returned"
                  => n > 0 /\ call.history[n].ok /\ call.out = Some(call.history[n])
            /\ call.pc = "thrown"
                  => /\ n > 0 /\ ~call.history[n].ok
                     /\ call.out = Some(call.history[n])
                     /\ ~C29_Transient(call.history[n]) \/ n = call.maxRetries + 1
            /\ call.pc = "loop"
                  => /\ n = 0 \/ C29_Transient(call.history[n])
                     /\ n = call.maxRetries + 1 => ENABLED RetryExhausted
            /\ \A calls \in C29_TurnCalls :
                   \A i, j \in 1..Len(calls) : calls[i].op = calls[j].op => i = j

\* the budget of two retries is used up: three transient failures, the last
\* one thrown
C29_Witness ==
    /\ call.op = "requestWithRetry"
    /\ call.pc = "thrown"
    /\ call.maxRetries = 2
    /\ Len(call.history) = 3
    /\ call.out = Some([ok |-> FALSE, status |-> Some(503)])

(***************************************************************************)
(* Properties of the slot-ranking graph                                    *)
(***************************************************************************)

\* C30: a run of the slot-ranking graph ends with final_ranked set to a
\* ranking of exactly the input slots, each once and with the ranks 1..n;
\* when the model output holds no JSON array it is the fallback order,
\* available slots before unavailable ones, ascending start in each group.
C30_RanksExactlyTheInput ==
    AtNode("end") =>
        /\ IsSome(call.final_ranked)
        /\ LET ranked == Val(call.final_ranked)
               n == Len(call.slots)
               slotAt(r) == CHOOSE i \in 1..n :
                                /\ call.slots[i].start = ranked[r].start
                                /\ call.slots[i].end = ranked[r].end
           IN  /\ Len(ranked) = n
               /\ {ranked[r].rank : r \in 1..Len(ranked)} = 1..n
               /\ \A i \in 1..n :
                      Cardinality({r \in 1..Len(ranked) :
                                       /\ ranked[r].start = call.slots[i].start
                                       /\ ranked[r].end = call.slots[i].end}) = 1
               /\ call.output.kind \notin {"array", "embedded"}
                     => \A r \in 1..Len(ranked) :
                            /\ ranked[r].rank = r
                            /\ \A q \in (r + 1)..Len(ranked) :
                                   LET a == call.slots[slotAt(r)]
                                       b == call.slots[slotAt(q)]
                                   IN  /\ b.available => a.available
                                       /\ a.available = b.available
                                             => a.start <= b.start

====
